---------------------------- MODULE Spec2Model ----------------------------
(***************************************************************************)
(* Model of deep_chem/utils/evaluate.py: the prediction adapter            *)
(* (model_predictions), the label/prediction aligner (eval_model) and the  *)
(* three metric aggregators (compute_roc_auc_scores, compute_r2_scores,    *)
(* compute_rms_scores).                                                    *)
(*                                                                         *)
(* Conventions of the model                                                *)
(*  - Python strings are TLA+ strings; their characters are given by       *)
(*    CodePoints, and sorted() compares them code point by code point.     *)
(*  - Python lists are sequences; Python 0-based positions are kept as     *)
(*    0-based numbers in the data (rows, heads, descriptor positions) and  *)
(*    shifted by one only where a TLA+ sequence is indexed.                *)
(*  - The trained model, dataset_to_numpy, numpy and the sklearn metrics   *)
(*    are external collaborators: a prediction array is a symbolic value   *)
(*    naming the call and head that produced it, a prediction entry names  *)
(*    its array and row, a score names the metric and its arguments.       *)
(*  - A raised exception ends the call: pc = "failed", err holds it, and   *)
(*    nothing is handed to the caller (ret stays NoValue).                 *)
(*  - Task names and descriptor keys are taken from disjoint pools.        *)
(***************************************************************************)
EXTENDS Integers, Sequences, FiniteSets, TLC

\* ------------------------------------------------------------------ bounds
\* The test set holds at most MaxSamples samples.
MaxSamples == 2

\* ------------------------------------------------------- names and strings
\* Sample identifiers come from SamplePool (its first MaxSamples entries);
\* task names and descriptor keys from two fixed, disjoint universes.
SamplePool == <<"CO", "CC", "C", "N">>
TaskNames == {"t2", "t10"}
DescKeys == {"1"}

CodePoints ==
  ("CO" :> <<67, 79>>) @@ ("CC" :> <<67, 67>>) @@ ("C" :> <<67>>) @@
  ("N" :> <<78>>) @@
  ("t2" :> <<116, 50>>) @@ ("t10" :> <<116, 49, 48>>) @@
  ("1" :> <<49>>) @@ ("0" :> <<48>>)

SampleIds == {SamplePool[i] : i \in 1..MaxSamples}

Range(s) == {s[i] : i \in 1..Len(s)}

\* The orders in which a dict with key set S may be iterated.
Orders(S) ==
  {s \in [1..Cardinality(S) -> S] :
     \A i, j \in 1..Cardinality(S) : i # j => s[i] # s[j]}

\* Python's comparison of two strings: code point by code point, a proper
\* prefix first.
RECURSIVE LexLess(_, _)
LexLess(a, b) ==
  IF a = <<>> THEN b # <<>>
  ELSE IF b = <<>> THEN FALSE
  ELSE IF Head(a) # Head(b) THEN Head(a) < Head(b)
  ELSE LexLess(Tail(a), Tail(b))

StrLess(x, y) == LexLess(CodePoints[x], CodePoints[y])

RECURSIVE SortedInsert(_, _)
SortedInsert(x, s) ==
  IF s = <<>> THEN <<x>>
  ELSE IF StrLess(Head(s), x) THEN <<Head(s)>> \o SortedInsert(x, Tail(s))
  ELSE <<x>> \o s

RECURSIVE SortKeys(_)
SortKeys(s) ==
  IF s = <<>> THEN <<>> ELSE SortedInsert(Head(s), SortKeys(Tail(s)))

\* sorted(keys) for the keys met in iteration order `keys`.
Unsorted(keys) == keys
Sorted(keys) == SortKeys(keys)

\* sorted(d.keys()): one result per order in which d may hand out its keys.
SortedKeys(d) == {Sorted(o) : o \in Orders(DOMAIN d)}

\* int(s) for a string of decimal digits.
RECURSIVE ParseDigits(_, _)
ParseDigits(cs, acc) ==
  IF cs = <<>> THEN acc ELSE ParseDigits(Tail(cs), 10 * acc + (Head(cs) - 48))

IntOf(s) == ParseDigits(CodePoints[s], 0)

\* ------------------------------------------------------------- exceptions
NoError == [type |-> "none", msg |-> ""]
ImproperModeltype == [type |-> "ValueError", msg |-> "Improper modeltype."]
LabelsMustBe01 == [type |-> "ValueError", msg |-> "Labels must be 0/1."]
BadTaskType ==
  [type |-> "ValueError",
   msg |-> "task_type must be classification or regression."]
IndexErr == [type |-> "IndexError", msg |-> ""]
KeyErr == [type |-> "KeyError", msg |-> ""]

\* The spec's names for the failures.
InvalidLabel == {LabelsMustBe01}
InvalidConfiguration == {ImproperModeltype, BadTaskType}

\* ---------------------------------------------------- the trained model
RecognisedModeltypes == {"sklearn", "keras", "keras_multitask"}
Modeltypes == RecognisedModeltypes \cup {"tensorflow"}

\* A model is described by what its prediction call hands back: a bare
\* array (kind "array") or a list of `heads` arrays (kind "list"); a
\* multi-head model's dict holds the blocks task0 .. task<heads-1>.
MaxHeads == Cardinality(TaskNames) + Cardinality(DescKeys)
Models == [kind : {"array", "list"}, heads : 0..MaxHeads]

\* A prediction array, named by the call that produced it and its place in
\* what the call returned.
PredArray(fn, place) == [fn |-> fn, place |-> place]

\* "task%d" % index
TaskBlockName(index) == <<"task", index>>

\* model.predict_proba(X) / model.predict(X)
\* A Python value that is either a list of arrays (islist) or one bare array
\* (then `arrays` holds just it).
RawPrediction(fn, mdl) ==
  IF mdl.kind = "array"
  THEN [islist |-> FALSE, arrays |-> <<PredArray(fn, <<"array", 0>>)>>]
  ELSE [islist |-> TRUE,
        arrays |-> [h \in 1..mdl.heads |-> PredArray(fn, <<"item", h - 1>>)]]

PyList(arrays) == [islist |-> TRUE, arrays |-> arrays]

\* model.predict({"input": X}) of a multi-head model: block name -> array
HeadBlocks(mdl) ==
  [b \in {TaskBlockName(h) : h \in 0..(mdl.heads - 1)} |->
     PredArray("predict", b)]

\* ypreds[t][index], positions 0-based in the data
PredEntry(array, row) == [array |-> array, row |-> row]

\* ------------------------------------------------------ model_predictions
NOutputs(n_targets, n_descriptors, add) ==
  IF add THEN n_targets + n_descriptors ELSE n_targets

\* The index in range(n_outputs) at which predictions["task%d" % index]
\* is looked up for position pos (1-based) of the list being built.
BlockIndex(pos) == pos - 1

\* The loop of lines 44-46: raises KeyError at the first missing block.
MultitaskBlocks(blocks, n_outputs) ==
  IF \E pos \in 1..n_outputs :
       TaskBlockName(BlockIndex(pos)) \notin DOMAIN blocks
  THEN [raised |-> KeyErr, ypreds |-> PyList(<<>>)]
  ELSE [raised |-> NoError,
        ypreds |-> PyList([pos \in 1..n_outputs |->
                             blocks[TaskBlockName(BlockIndex(pos))]])]

\* Lines 50-51: a result that is not a list is wrapped into one.
NoWrap(raw) == raw
WrapSingle(raw) == IF raw.islist THEN raw ELSE PyList(<<raw.arrays[1]>>)

\* The prediction functions of the model that a convention calls.
CallsMadeAlways(mt) == <<"predict">>
CallsMade(mt) ==
  IF mt = "sklearn" THEN <<"predict_proba">>
  ELSE IF mt \in {"keras", "keras_multitask"} THEN <<"predict">>
  ELSE <<>>

\* model_predictions(test_set, model, n_targets, n_descriptors,
\*                   add_descriptors, modeltype): what it raises or returns
\* and the calls it made on the model.
ModelPredictions(mt, n_targets, n_descriptors, add, mdl) ==
  LET n_outputs == NOutputs(n_targets, n_descriptors, add) IN
  IF mt = "sklearn"
  THEN [raised |-> NoError, calls |-> CallsMade(mt),
        ypreds |-> WrapSingle(RawPrediction("predict_proba", mdl))]
  ELSE IF mt = "keras"
  THEN [raised |-> NoError, calls |-> CallsMade(mt),
        ypreds |-> WrapSingle(RawPrediction("predict", mdl))]
  ELSE IF mt = "keras_multitask"
  THEN LET got == MultitaskBlocks(HeadBlocks(mdl), n_outputs) IN
       [raised |-> got.raised, calls |-> CallsMade(mt),
        ypreds |-> got.ypreds]
  ELSE [raised |-> ImproperModeltype, calls |-> CallsMade(mt),
        ypreds |-> PyList(<<>>)]

\* ------------------------------------------------------------ the inputs
Tags == {"classification", "regression", "ranking"}

\* The label values tried for a task of each tag: the missing sentinel -1,
\* the two class labels, and a value that is no class label.
LabelsFor(tag) ==
  IF tag = "classification" THEN {-1, 0, 1, 2}
  ELSE IF tag = "regression" THEN {-1, 7}
  ELSE {-1, 1}

TaskTypeMaps(tags) == UNION {[T -> tags] : T \in SUBSET TaskNames}
DescTransformMaps == UNION {[D -> {"log"}] : D \in SUBSET DescKeys}

\* The label maps of one sample; `excluded` holds the label values a run
\* leaves out (the value that is no class label, for sessions of calls that
\* all return).
LabelMaps(tt, excluded) ==
  {l \in [DOMAIN tt -> {-1, 0, 1, 2, 7}] :
     \A t \in DOMAIN tt : l[t] \in LabelsFor(tt[t]) \ excluded}

\* Every sample carries a descriptor vector long enough for every key.
DescLen == Cardinality(DescKeys) + 1
SampleNo(s) == CHOOSE i \in 1..Len(SamplePool) : SamplePool[i] = s
DescriptorsOf(s) == [d \in 1..DescLen |-> 100 + 10 * SampleNo(s) + (d - 1)]

TestSets(tt, excluded) ==
  UNION {
    {[s \in S |-> [labels |-> f[s], descriptors |-> DescriptorsOf(s)]] :
       f \in [S -> LabelMaps(tt, excluded)]} : S \in SUBSET SampleIds}

\* One description per distinguishable model: a bare array is one head, a
\* multi-head model hands back a dict, and no call reaches the model of an
\* unrecognised convention.
ModelsFor(mt) ==
  IF mt \in {"sklearn", "keras"}
  THEN {m \in Models : m.heads >= 1 /\ (m.kind = "array" => m.heads = 1)}
  ELSE IF mt = "keras_multitask"
  THEN {m \in Models : m.kind = "list" /\ m.heads >= 1}
  ELSE {[kind |-> "array", heads |-> 1]}

\* -------------------------------------------------------------- the state
VARIABLES
  test_set,          \* caller's test set: sample id -> datapoint
  task_types,        \* caller's Task Type Map (the dict object itself)
  desc_transforms,   \* caller's Descriptor Transform Map
  modeltype,         \* the prediction convention
  add_descriptors,   \* whether descriptors are extra endpoints
  model,             \* the trained model (see Models)
  pc,                \* "idle", "loop", "returned", "failed"
  err,               \* the exception that ended the call, or NoError
  sorted_targets,    \* eval_model's locals ...
  endpoints,
  local_copy,        \* the dict object made by task_types.copy()
  local_task_types,  \* the object the name local_task_types is bound to
  ypreds,
  results,
  sorted_smiles,
  index,
  t_ind,
  model_calls,       \* prediction functions called on the model by the call
  prev_call,         \* how the previous call of eval_model ended
  auc_scores,        \* what the last call of each aggregator gave
  r2_scores,
  rms_scores,
  adapter            \* a direct call of model_predictions: args and outcome

inputs == <<test_set, task_types, desc_transforms, modeltype,
            add_descriptors, model>>
locals == <<sorted_targets, endpoints, local_copy, local_task_types, ypreds,
            results, sorted_smiles, index, t_ind>>
scores == <<auc_scores, r2_scores, rms_scores>>
vars == <<inputs, pc, err, locals, model_calls, prev_call, scores, adapter>>

\* A Python list and the numpy array made from one (np.array(list)).
PyListOf(seq) == [kind |-> "list", data |-> seq]
NpArray(l) == [kind |-> "ndarray", data |-> l.data]

EmptyPair == [ytrue |-> PyListOf(<<>>), yscore |-> PyListOf(<<>>)]
NotRun == [status |-> "unset", value |-> <<>>, raised |-> NoError]
NoCall == [pc |-> "idle", err |-> NoError, results |-> <<>>]
NoAdapterCall ==
  [called |-> FALSE, modeltype |-> "", n_targets |-> 0, n_descriptors |-> 0,
   add_descriptors |-> FALSE, model |-> [kind |-> "array", heads |-> 1],
   out |-> [raised |-> NoError, calls |-> <<>>, ypreds |-> PyList(<<>>)]]

InitLocals ==
  /\ sorted_targets = <<>>
  /\ endpoints = <<>>
  /\ local_copy = <<>>
  /\ local_task_types = "unbound"
  /\ ypreds = PyList(<<>>)
  /\ results = <<>>
  /\ sorted_smiles = <<>>
  /\ index = 0
  /\ t_ind = 0

InitRest ==
  /\ pc = "idle"
  /\ err = NoError
  /\ InitLocals
  /\ model_calls = <<>>
  /\ prev_call = NoCall
  /\ auc_scores = NotRun
  /\ r2_scores = NotRun
  /\ rms_scores = NotRun
  /\ adapter = NoAdapterCall

Init ==
  /\ task_types \in TaskTypeMaps(Tags)
  /\ desc_transforms \in DescTransformMaps
  /\ test_set \in TestSets(task_types, {})
  /\ modeltype \in Modeltypes
  /\ add_descriptors \in BOOLEAN
  /\ model \in ModelsFor(modeltype)
  /\ InitRest

\* ------------------------------------------------------------ eval_model
\* d.copy(): the object the copy's name is bound to.
AliasDict(ref) == ref
DictCopy(ref) == "local_copy"

\* for desc in desc_transforms: d[desc] = "regression"
ExtendWithDescriptors(d, descs) ==
  [k \in (DOMAIN d) \cup descs |-> IF k \in descs THEN "regression" ELSE d[k]]

\* Lines 83-91: the contents of the object local_task_types is bound to.
LocalTaskTypes(tt, dt, add) ==
  IF add THEN ExtendWithDescriptors(tt, DOMAIN dt) ELSE tt

\* Lines 82-91: the endpoint list.
Endpoints(st, sd, add) == IF add THEN st \o sd ELSE st

\* The dict object a reference names.
Deref(ref) == IF ref = "task_types" THEN task_types ELSE local_copy

\* Lines 82-99. Each of the three dicts hands out its keys in some order;
\* model_predictions either raises, which ends the call before the
\* Results Map exists, or gives the prediction list.
BeginEval ==
  \E st \in SortedKeys(task_types),
     sd \in SortedKeys(desc_transforms),
     ss \in SortedKeys(test_set) :
    LET eps == Endpoints(st, sd, add_descriptors)
        ref == DictCopy("task_types")
        ltt == LocalTaskTypes(task_types, desc_transforms, add_descriptors)
        mp == ModelPredictions(modeltype, Len(st),
                               Cardinality(DOMAIN desc_transforms),
                               add_descriptors, model)
    IN
    /\ sorted_targets' = st
    /\ endpoints' = eps
    /\ local_task_types' = ref
    /\ IF ref = "task_types"
       THEN task_types' = ltt /\ local_copy' = <<>>
       ELSE task_types' = task_types /\ local_copy' = ltt
    /\ model_calls' = mp.calls
    /\ index' = 0
    /\ t_ind' = 0
    /\ IF mp.raised # NoError
       THEN /\ pc' = "failed"
            /\ err' = mp.raised
            /\ ypreds' = PyList(<<>>)
            /\ results' = <<>>
            /\ sorted_smiles' = <<>>
       ELSE /\ pc' = "loop"
            /\ err' = NoError
            /\ ypreds' = mp.ypreds
            /\ results' = [e \in Range(eps) |-> EmptyPair]
            /\ sorted_smiles' = ss
    /\ UNCHANGED <<test_set, desc_transforms, modeltype, add_descriptors,
                   model>>

EvalModelCall ==
  /\ pc = "idle"
  /\ BeginEval
  /\ UNCHANGED <<prev_call, scores, adapter>>

\* ypreds[t][i] (0-based): IndexError past the end of the list.  A bare
\* array would be indexed by row, then by column.
PredAt(yp, t, i) ==
  IF yp.islist
  THEN IF t < Len(yp.arrays)
       THEN [raised |-> NoError, entry |-> PredEntry(yp.arrays[t + 1], i)]
       ELSE [raised |-> IndexErr, entry |-> PredEntry(<<>>, i)]
  ELSE [raised |-> NoError,
        entry |-> PredEntry(PredEntry(yp.arrays[1], t), i)]

\* Lines 105-106: the (sample, endpoint) pair is skipped.
IsSkippedDescToo(target, st, labels) ==
  target \notin Range(st) \/ labels[target] = -1
IsSkipped(target, st, labels) ==
  target \in Range(st) /\ labels[target] = -1

\* Lines 109-124: the ground-truth value appended for a pair that is not
\* skipped, or the exception raised instead.
TruthNoCheck(task_type, target, st, datapoint) ==
  [raised |-> NoError,
   value |-> IF target \in Range(st) THEN datapoint.labels[target]
             ELSE datapoint.descriptors[IntOf(target) + 1]]
TruthTagUnchecked(task_type, target, st, datapoint) ==
  IF task_type = "classification"
  THEN IF datapoint.labels[target] \in {0, 1}
       THEN [raised |-> NoError, value |-> datapoint.labels[target]]
       ELSE [raised |-> LabelsMustBe01, value |-> 0]
  ELSE [raised |-> NoError,
        value |-> IF target \in Range(st) THEN datapoint.labels[target]
                  ELSE datapoint.descriptors[IntOf(target) + 1]]
Truth(task_type, target, st, datapoint) ==
  IF task_type = "classification"
  THEN IF datapoint.labels[target] = 0
       THEN [raised |-> NoError, value |-> 0]
       ELSE IF datapoint.labels[target] = 1
       THEN [raised |-> NoError, value |-> 1]
       ELSE [raised |-> LabelsMustBe01, value |-> 0]
  ELSE IF target \in Range(st) /\ task_type = "regression"
  THEN [raised |-> NoError, value |-> datapoint.labels[target]]
  ELSE IF target \notin Range(st) /\ task_type = "regression"
  THEN IF IntOf(target) < Len(datapoint.descriptors)
       THEN [raised |-> NoError,
             value |-> datapoint.descriptors[IntOf(target) + 1]]
       ELSE [raised |-> IndexErr, value |-> 0]
  ELSE [raised |-> BadTaskType, value |-> 0]

AppendTo(l, x) == PyListOf(Append(l.data, x))

\* enumerate(sorted_smiles) x enumerate(endpoints): the pair after (i, t).
NextIndex(i, t, n_endpoints) == IF t + 1 < n_endpoints THEN i ELSE i + 1
NextTInd(i, t, n_endpoints) == IF t + 1 < n_endpoints THEN t + 1 ELSE 0

\* Line 106, `continue`: the loops go on with the pair after the skipped one.
BreakOnSkip(i, t, n_endpoints) == <<i + 1, 0>>
AfterSkip(i, t, n_endpoints) ==
  <<NextIndex(i, t, n_endpoints), NextTInd(i, t, n_endpoints)>>

\* Line 125, ypreds[t_ind][index]: the row is the sample's place in sorted
\* order, whatever number of entries the endpoint has kept so far.
RowOfKept(i, n_kept) == n_kept
RowOf(i, n_kept) == i

\* Lines 100-125 for one (sample, endpoint) pair.
EvalStep ==
  /\ pc = "loop"
  /\ index < Len(sorted_smiles)
  /\ Len(endpoints) > 0
  /\ LET smiles == sorted_smiles[index + 1]
         datapoint == test_set[smiles]
         target == endpoints[t_ind + 1]
         task_type == Deref(local_task_types)[target]
         truth == Truth(task_type, target, sorted_targets, datapoint)
         pair == results[target]
         pred == PredAt(ypreds, t_ind, RowOf(index, Len(pair.yscore.data)))
     IN
     IF IsSkipped(target, sorted_targets, datapoint.labels)
     THEN /\ results' = results
          /\ index' = AfterSkip(index, t_ind, Len(endpoints))[1]
          /\ t_ind' = AfterSkip(index, t_ind, Len(endpoints))[2]
          /\ UNCHANGED <<pc, err>>
     ELSE IF truth.raised # NoError
     THEN /\ pc' = "failed"
          /\ err' = truth.raised
          /\ UNCHANGED <<results, index, t_ind>>
     ELSE IF pred.raised # NoError
     THEN /\ pc' = "failed"
          /\ err' = pred.raised
          /\ results' = [results EXCEPT
                           ![target].ytrue = AppendTo(pair.ytrue, truth.value)]
          /\ UNCHANGED <<index, t_ind>>
     ELSE /\ results' = [results EXCEPT
                           ![target].ytrue = AppendTo(pair.ytrue, truth.value),
                           ![target].yscore = AppendTo(pair.yscore, pred.entry)]
          /\ index' = NextIndex(index, t_ind, Len(endpoints))
          /\ t_ind' = NextTInd(index, t_ind, Len(endpoints))
          /\ UNCHANGED <<pc, err>>
  /\ UNCHANGED <<inputs, sorted_targets, endpoints, local_copy,
                 local_task_types, ypreds, sorted_smiles, model_calls,
                 prev_call, scores, adapter>>

\* Lines 126-129: both lists of every endpoint become arrays and the map is
\* returned.
EvalReturn ==
  /\ pc = "loop"
  /\ index >= Len(sorted_smiles) \/ Len(endpoints) = 0
  /\ results' = [e \in DOMAIN results |->
                   [ytrue |-> NpArray(results[e].ytrue),
                    yscore |-> NpArray(results[e].yscore)]]
  /\ pc' = "returned"
  /\ UNCHANGED <<inputs, err, sorted_targets, endpoints, local_copy,
                 local_task_types, ypreds, sorted_smiles, index, t_ind,
                 model_calls, prev_call, scores, adapter>>

\* A second (third, ...) call of eval_model by the same caller, on whatever
\* the caller's maps now hold; prev_call keeps how the call before ended.
EvalModelRecall ==
  /\ pc \in {"returned", "failed"}
  /\ prev_call' = [pc |-> pc, err |-> err, results |-> results]
  /\ BeginEval
  /\ auc_scores' = NotRun
  /\ r2_scores' = NotRun
  /\ rms_scores' = NotRun
  /\ UNCHANGED adapter

\* ------------------------------------------------------------ aggregators
\* np.array(list).ndim for a list whose entries have elem_ndim dimensions:
\* np.array([]) is one-dimensional.
Ndim(arr, elem_ndim) == IF arr.data = <<>> THEN 1 ELSE elem_ndim + 1

\* yscore[:,1] of an array of prediction rows: IndexError on a
\* one-dimensional array.
Column1(arr) ==
  IF Ndim(arr, 1) < 2
  THEN [raised |-> IndexErr, value |-> <<>>]
  ELSE [raised |-> NoError,
        value |-> [i \in 1..Len(arr.data) |-> [row |-> arr.data[i], col |-> 1]]]

\* The external metric calls, as the terms they are applied to.
RocAucScore(ytrue, yscore1) ==
  [metric |-> "roc_auc_score", ytrue |-> ytrue.data, yscore |-> yscore1,
   sample_weight |-> <<"labels_to_weights", ytrue.data>>]
R2Score(ytrue, yscore) ==
  [metric |-> "r2_score", ytrue |-> ytrue.data, yscore |-> yscore.data]
RmsScore(ytrue, yscore) ==
  [metric |-> "sqrt(mean_squared_error)", ytrue |-> ytrue.data,
   yscore |-> yscore.data]

\* task_types[target] for every target in res: the targets whose lookup
\* raises KeyError.
UnknownTargets(res, tt) == (DOMAIN res) \ (DOMAIN tt)

\* The targets an aggregator keeps (line 145 / 173 / 195).
TargetsOfType(res, tt, tag) ==
  {e \in (DOMAIN res) \cap (DOMAIN tt) : tt[e] = tag}

\* The exceptions compute_roc_auc_scores can end with: which of them comes
\* first depends on the order in which `results` hands out its keys.
AucErrors(res, tt) ==
  (IF UnknownTargets(res, tt) # {} THEN {KeyErr} ELSE {})
  \cup {Column1(res[e].yscore).raised :
          e \in {x \in TargetsOfType(res, tt, "classification") :
                   Column1(res[x].yscore).raised # NoError}}

RegressionErrors(res, tt) ==
  IF UnknownTargets(res, tt) # {} THEN {KeyErr} ELSE {}

Ok(value) == [status |-> "ok", value |-> value, raised |-> NoError]
Raised(e) == [status |-> "raised", value |-> <<>>, raised |-> e]

\* compute_roc_auc_scores(results, task_types), lines 143-157
ComputeRocAucScores(res, tt) ==
  IF AucErrors(res, tt) # {}
  THEN {Raised(e) : e \in AucErrors(res, tt)}
  ELSE {Ok([e \in TargetsOfType(res, tt, "classification") |->
              RocAucScore(res[e].ytrue, Column1(res[e].yscore).value)])}

\* compute_r2_scores(results, task_types), lines 171-179
ComputeR2Scores(res, tt) ==
  IF RegressionErrors(res, tt) # {}
  THEN {Raised(e) : e \in RegressionErrors(res, tt)}
  ELSE {Ok([e \in TargetsOfType(res, tt, "regression") |->
              R2Score(res[e].ytrue, res[e].yscore)])}

\* compute_rms_scores(results, task_types), lines 193-201
ComputeRmsScores(res, tt) ==
  IF RegressionErrors(res, tt) # {}
  THEN {Raised(e) : e \in RegressionErrors(res, tt)}
  ELSE {Ok([e \in TargetsOfType(res, tt, "regression") |->
              RmsScore(res[e].ytrue, res[e].yscore)])}

\* The caller hands an aggregator the Results Map eval_model returned and the
\* Task Type Map it gave eval_model.
RocAuc ==
  /\ pc = "returned"
  /\ auc_scores' \in ComputeRocAucScores(results, task_types)
  /\ UNCHANGED <<inputs, pc, err, locals, model_calls, prev_call, r2_scores,
                 rms_scores, adapter>>

R2 ==
  /\ pc = "returned"
  /\ r2_scores' \in ComputeR2Scores(results, task_types)
  /\ UNCHANGED <<inputs, pc, err, locals, model_calls, prev_call, auc_scores,
                 rms_scores, adapter>>

Rms ==
  /\ pc = "returned"
  /\ rms_scores' \in ComputeRmsScores(results, task_types)
  /\ UNCHANGED <<inputs, pc, err, locals, model_calls, prev_call, auc_scores,
                 r2_scores, adapter>>

\* ------------------------------------------ model_predictions on its own
AdapterCall ==
  \E mt \in Modeltypes, n_targets \in 0..MaxHeads,
     n_descriptors \in 0..MaxHeads, add \in BOOLEAN, mdl \in Models :
    /\ mdl.kind = "array" => mdl.heads = 1
    /\ adapter' =
         [called |-> TRUE, modeltype |-> mt, n_targets |-> n_targets,
          n_descriptors |-> n_descriptors, add_descriptors |-> add,
          model |-> mdl,
          out |-> ModelPredictions(mt, n_targets, n_descriptors, add, mdl)]
    /\ UNCHANGED <<inputs, pc, err, locals, model_calls, prev_call, scores>>

\* --------------------------------------------------------- specifications
\* One call of eval_model on every input.
Next == EvalModelCall \/ EvalStep \/ EvalReturn

Spec == Init /\ [][Next]_vars

\* Calls of eval_model and of the aggregators in any sequence, on test sets
\* whose class labels are valid, task types that are recognised, and models
\* with one head or one head per possible endpoint.
InitSession ==
  /\ task_types \in TaskTypeMaps({"classification", "regression"})
  /\ desc_transforms \in DescTransformMaps
  /\ test_set \in TestSets(task_types, {2})
  /\ modeltype \in Modeltypes
  /\ add_descriptors \in BOOLEAN
  /\ model \in {m \in ModelsFor(modeltype) : m.heads \in {1, MaxHeads}}
  /\ InitRest

NextSession ==
  \/ EvalModelCall
  \/ EvalStep
  \/ EvalReturn
  \/ EvalModelRecall
  \/ RocAuc
  \/ R2
  \/ Rms

SpecSession == InitSession /\ [][NextSession]_vars

\* Direct calls of model_predictions.
InitAdapter ==
  /\ task_types = <<>>
  /\ desc_transforms = <<>>
  /\ test_set = <<>>
  /\ modeltype = "sklearn"
  /\ add_descriptors = FALSE
  /\ model = [kind |-> "array", heads |-> 1]
  /\ InitRest

NextAdapter == AdapterCall

SpecAdapter == InitAdapter /\ [][NextAdapter]_vars

\* ------------------------------------------------- what the claims speak of
\* The definitions below restate, from the inputs alone, what the claims
\* expect; none of them is used by the actions above.

\* The keys of S in lexicographic order: each key comes after as many keys
\* as are smaller than it.
InOrder(S) ==
  [i \in 1..Cardinality(S) |->
     CHOOSE x \in S : Cardinality({y \in S : StrLess(y, x)}) = i - 1]

\* q lists exactly the keys of S, each once, in lexicographic order.
IsInOrder(q, S) ==
  /\ Len(q) = Cardinality(S)
  /\ Range(q) = S
  /\ \A i \in 1..Len(q) : \A j \in (i + 1)..Len(q) : StrLess(q[i], q[j])

\* The sequences, empty or not, that list keys of S without repetition.
Seq0(S) == UNION {Orders(T) : T \in SUBSET S}

ExpSamples == InOrder(DOMAIN test_set)
ExpEndpoints ==
  InOrder(DOMAIN task_types)
    \o (IF add_descriptors THEN InOrder(DOMAIN desc_transforms) ELSE <<>>)

IsPrimary(e) == e \in DOMAIN task_types

\* Sample s has no ground truth for endpoint e.
Missing(s, e) == IsPrimary(e) /\ test_set[s].labels[e] = -1

\* The samples kept for endpoint e, in sorted order.
Kept(e) == SelectSeq(ExpSamples, LAMBDA s : ~Missing(s, e))

PlaceOf(x, q) == CHOOSE i \in 1..Len(q) : q[i] = x

\* The position a descriptor key names: the number whose decimal digit it is.
DescPosition(e) == CHOOSE n \in 0..9 : CodePoints[e] = <<48 + n>>

GroundTruth(s, e) ==
  IF IsPrimary(e) THEN test_set[s].labels[e]
  ELSE test_set[s].descriptors[DescPosition(e) + 1]

EndpointTag(e) == IF IsPrimary(e) THEN task_types[e] ELSE "regression"

Finished == pc \in {"returned", "failed"}

\* The number of prediction arrays the model gives eval_model for the
\* endpoint list eps.
ArraysGiven(eps) ==
  IF modeltype = "keras_multitask" THEN Len(eps)
  ELSE IF model.kind = "array" THEN 1 ELSE model.heads

\* model_predictions fails: an unrecognised convention, or a multi-head model
\* without a block for some endpoint.
AdapterFails ==
  \/ modeltype \notin RecognisedModeltypes
  \/ modeltype = "keras_multitask" /\ model.heads < Len(ExpEndpoints)

\* What goes wrong at the pair (sample s, t-th endpoint e), if anything, when
\* the model gives n prediction arrays.
PairFailure(s, e, t, n) ==
  IF Missing(s, e) THEN NoError
  ELSE IF EndpointTag(e) = "classification"
  THEN IF test_set[s].labels[e] \in {0, 1}
       THEN IF t > n THEN IndexErr ELSE NoError
       ELSE LabelsMustBe01
  ELSE IF EndpointTag(e) # "regression" THEN BadTaskType
  ELSE IF t > n THEN IndexErr ELSE NoError

\* The failure of every pair <<i, t>> (i-th sample, t-th endpoint).
PairFailures ==
  LET smp == ExpSamples
      eps == ExpEndpoints
      n == ArraysGiven(eps)
  IN [p \in (1..Len(smp)) \X (1..Len(eps)) |->
        PairFailure(smp[p[1]], eps[p[2]], p[2], n)]

Before(p, q) == p[1] < q[1] \/ (p[1] = q[1] /\ p[2] < q[2])

\* Some pair fails with error e, and no pair processed before it fails with
\* another error.
FirstFailureIs(e) ==
  LET pf == PairFailures IN
  \E p \in DOMAIN pf :
    /\ pf[p] = e
    /\ \A q \in DOMAIN pf : Before(q, p) => pf[q] \in {NoError, e}

\* Some pair fails with error e.
SomePairFailsWith(e) ==
  LET pf == PairFailures IN \E p \in DOMAIN pf : pf[p] = e

NoPairFails ==
  LET pf == PairFailures IN \A p \in DOMAIN pf : pf[p] = NoError

HasBadLabel ==
  \E s \in DOMAIN test_set, e \in DOMAIN task_types :
    task_types[e] = "classification" /\ test_set[s].labels[e] \notin {-1, 0, 1}
HasBadTag ==
  \E e \in DOMAIN task_types : task_types[e] \notin {"classification", "regression"}

\* ------------------------------------------------------------------ claims

\* C1: while eval_model runs and in the map it returns, the ground-truth and
\* the predicted sequence of every endpoint have the same length; in the
\* returned map the endpoints are those of the endpoint list and the length
\* is the number of samples minus the samples whose label for the endpoint is
\* missing (a descriptor endpoint has one entry per sample).
C1_EqualLengths ==
  /\ pc \in {"loop", "returned"} =>
       \A e \in DOMAIN results :
         Len(results[e].ytrue.data) = Len(results[e].yscore.data)
  /\ pc = "returned" =>
       /\ DOMAIN results = Range(ExpEndpoints)
       /\ \A e \in DOMAIN results :
            Len(results[e].ytrue.data) =
              Cardinality(DOMAIN test_set)
                - Cardinality({s \in DOMAIN test_set : Missing(s, e)})

C1_Witness ==
  /\ pc = "returned"
  /\ Cardinality(DOMAIN test_set) = 2
  /\ \E e \in DOMAIN results :
       IsPrimary(e) /\ Len(results[e].ytrue.data) = 1
  /\ \E d \in DOMAIN results :
       ~IsPrimary(d) /\ Len(results[d].yscore.data) = 2

\* C2: a step on a pair whose primary-task label is -1 appends nothing to any
\* sequence and goes on with the next endpoint of the same sample (the next
\* sample only after the last endpoint); a step on any other pair that does
\* not raise appends exactly one entry to the ground-truth and one to the
\* predicted sequence of its endpoint and leaves the other endpoints alone.
C2_SkipAppendsNothing ==
  [][(pc = "loop" /\ index < Len(sorted_smiles) /\ Len(endpoints) > 0) =>
       LET s == sorted_smiles[index + 1]
           e == endpoints[t_ind + 1]
       IN IF Missing(s, e)
          THEN /\ results' = results
               /\ pc' = "loop"
               /\ IF t_ind + 1 < Len(endpoints)
                  THEN index' = index /\ t_ind' = t_ind + 1
                  ELSE index' = index + 1 /\ t_ind' = 0
          ELSE pc' = "loop" =>
                 /\ Len(results'[e].ytrue.data) = Len(results[e].ytrue.data) + 1
                 /\ Len(results'[e].yscore.data)
                      = Len(results[e].yscore.data) + 1
                 /\ \A o \in DOMAIN results \ {e} : results'[o] = results[o]
    ]_vars

C2_Witness ==
  /\ pc = "returned"
  /\ \E s \in DOMAIN test_set, e \in DOMAIN results, o \in DOMAIN results :
       /\ Missing(s, e)
       /\ PlaceOf(e, endpoints) < PlaceOf(o, endpoints)
       /\ Len(results[e].ytrue.data) < Cardinality(DOMAIN test_set)
       /\ Len(results[o].ytrue.data) = Cardinality(DOMAIN test_set)

\* C3 as stated: every ground-truth entry of a classification endpoint of the
\* returned map is 0 or 1, and whenever some sample carries a label that is
\* not 0, 1 or -1 on a classification task, eval_model ends with InvalidLabel
\* and returns nothing.
C3_AsStated ==
  /\ pc = "returned" =>
       \A e \in DOMAIN results :
         EndpointTag(e) = "classification" =>
           \A k \in 1..Len(results[e].ytrue.data) :
             results[e].ytrue.data[k] \in {0, 1}
  /\ (Finished /\ HasBadLabel) => (pc = "failed" /\ err \in InvalidLabel)

\* C3 amended: with such a label eval_model returns nothing: it fails, and the
\* failure is InvalidLabel unless model_predictions fails or a pair processed
\* before the first such label fails otherwise.
C3_InvalidLabelUnlessEarlier ==
  /\ pc = "returned" =>
       \A e \in DOMAIN results :
         EndpointTag(e) = "classification" =>
           \A k \in 1..Len(results[e].ytrue.data) :
             results[e].ytrue.data[k] \in {0, 1}
  /\ (Finished /\ HasBadLabel) =>
       /\ pc = "failed"
       /\ err \in InvalidLabel
            <=> (~AdapterFails /\ FirstFailureIs(LabelsMustBe01))

C3_Witness ==
  /\ pc = "failed"
  /\ err \in InvalidLabel
  /\ index = 1
  /\ \E e \in DOMAIN results : Len(results[e].ytrue.data) > 0

\* C4 as stated: whenever a primary task has a tag that is neither
\* classification nor regression, eval_model fails (with
\* InvalidConfiguration) and returns no Results Map, whatever the test set:
\* no call on such a Task Type Map ends by returning a map.
C4_AsStated ==
  HasBadTag => pc # "returned"

\* C4 amended: the tag is examined only at a pair of that task whose label is
\* not -1.  If there is such a pair eval_model returns nothing, and it fails
\* with InvalidConfiguration unless an InvalidLabel or a missing prediction
\* array is met first; if there is none, the tag raises nothing.
C4_BadTagOnlyWhenLabelled ==
  (Finished /\ HasBadTag) =>
    IF SomePairFailsWith(BadTaskType)
    THEN /\ pc = "failed"
         /\ err \in InvalidConfiguration
              <=> \/ modeltype \notin RecognisedModeltypes
                  \/ ~AdapterFails /\ FirstFailureIs(BadTaskType)
    ELSE /\ err # BadTaskType
         /\ (~AdapterFails /\ NoPairFails) => pc = "returned"

C4_Witness ==
  /\ pc = "returned"
  /\ HasBadTag
  /\ DOMAIN test_set # {}

\* C5: with an unrecognised convention the call of eval_model ends with the
\* InvalidConfiguration of model_predictions, no prediction function of the
\* model has been called, and the Results Map has no entry.
C5_UnrecognisedConvention ==
  (modeltype \notin RecognisedModeltypes /\ pc # "idle") =>
    /\ pc = "failed"
    /\ err = ImproperModeltype
    /\ err \in InvalidConfiguration
    /\ model_calls = <<>>
    /\ DOMAIN results = {}

C5_Witness ==
  /\ modeltype \notin RecognisedModeltypes
  /\ pc = "failed"
  /\ Cardinality(DOMAIN test_set) = 2
  /\ DOMAIN task_types # {}

\* C6: samples are processed in lexicographic order and endpoints in
\* endpoint-list order; in the returned map the k-th entry of the endpoint at
\* position t pairs the ground truth of the k-th kept sample with the entry of
\* prediction array t at that sample's place among all samples.
C6_Alignment ==
  /\ pc \in {"loop", "returned"} =>
       /\ IsInOrder(sorted_smiles, DOMAIN test_set)
       /\ IsInOrder(sorted_targets, DOMAIN task_types)
       /\ \E sd \in Seq0(DOMAIN desc_transforms) :
            /\ IsInOrder(sd, IF add_descriptors THEN DOMAIN desc_transforms
                             ELSE {})
            /\ endpoints = sorted_targets \o sd
  /\ pc = "returned" =>
       \A t \in 1..Len(endpoints) :
         LET e == endpoints[t]
             kept == SelectSeq(sorted_smiles, LAMBDA s : ~Missing(s, e))
         IN /\ Len(results[e].ytrue.data) = Len(kept)
            /\ Len(results[e].yscore.data) = Len(kept)
            /\ \A k \in 1..Len(kept) :
                 /\ results[e].ytrue.data[k] = GroundTruth(kept[k], e)
                 /\ results[e].yscore.data[k] =
                      PredEntry(ypreds.arrays[t],
                                PlaceOf(kept[k], sorted_smiles) - 1)

C6_Witness ==
  /\ pc = "returned"
  /\ Len(endpoints) = 3
  /\ \E e \in DOMAIN results :
       /\ Len(Kept(e)) = 1
       /\ Len(results[e].yscore.data) = 1
       /\ results[e].yscore.data[1].row = 1

\* C7: a call of eval_model ends as the call before it did on the same
\* inputs, with the same Results Map, whatever order the three maps hand out
\* their keys in.
C7_Deterministic ==
  (prev_call.pc # "idle" /\ Finished) =>
    prev_call = [pc |-> pc, err |-> err, results |-> results]

C7_Witness ==
  /\ prev_call.pc = "returned"
  /\ pc = "returned"
  /\ Cardinality(DOMAIN test_set) = 2
  /\ Cardinality(DOMAIN task_types) = 2
  /\ \E e \in DOMAIN results : Len(results[e].ytrue.data) = 2

\* C8 as stated: called with the returned map and the Task Type Map given to
\* eval_model, each aggregator returns scores, with one key per classification
\* endpoint (AUC) or one per regression endpoint, descriptor endpoints
\* included (R2, RMS).
C8_AsStated ==
  /\ auc_scores.status # "unset" =>
       /\ auc_scores.status = "ok"
       /\ DOMAIN auc_scores.value
            = {e \in DOMAIN results : EndpointTag(e) = "classification"}
  /\ r2_scores.status # "unset" =>
       /\ r2_scores.status = "ok"
       /\ DOMAIN r2_scores.value
            = {e \in DOMAIN results : EndpointTag(e) = "regression"}
  /\ rms_scores.status # "unset" =>
       /\ rms_scores.status = "ok"
       /\ DOMAIN rms_scores.value
            = {e \in DOMAIN results : EndpointTag(e) = "regression"}

\* C9: no step changes the caller's test set, Task Type Map or Descriptor
\* Transform Map, no aggregator changes the returned Results Map, and the
\* scores an aggregator gave stay what it would give now.
C9_NothingMutated ==
  [][/\ test_set' = test_set
     /\ task_types' = task_types
     /\ desc_transforms' = desc_transforms
     /\ (pc = "returned" /\ pc' = "returned") => results' = results
     /\ auc_scores'.status # "unset"
          => auc_scores' \in ComputeRocAucScores(results', task_types')
     /\ r2_scores'.status # "unset"
          => r2_scores' \in ComputeR2Scores(results', task_types')
     /\ rms_scores'.status # "unset"
          => rms_scores' \in ComputeRmsScores(results', task_types')
    ]_vars

C9_Witness ==
  /\ pc = "returned"
  /\ prev_call.pc = "returned"
  /\ add_descriptors
  /\ DOMAIN desc_transforms # {}
  /\ DOMAIN local_copy # DOMAIN task_types
  /\ auc_scores.status # "unset"
  /\ r2_scores.status # "unset"
  /\ rms_scores.status # "unset"

\* C10: for a recognised convention what model_predictions returns is a list:
\* a bare array comes back as the one element of a list, and for the
\* multi-head convention the list has n_targets elements (n_targets +
\* n_descriptors with descriptors included), element t being block task<t>.
C10_AlwaysAList ==
  (/\ adapter.called
   /\ adapter.modeltype \in RecognisedModeltypes
   /\ adapter.out.raised = NoError) =>
    LET out == adapter.out.ypreds
        n == IF adapter.add_descriptors
             THEN adapter.n_targets + adapter.n_descriptors
             ELSE adapter.n_targets
        fn == IF adapter.modeltype = "sklearn" THEN "predict_proba"
              ELSE "predict"
    IN /\ out.islist
       /\ (adapter.modeltype # "keras_multitask" /\ adapter.model.kind = "array")
            => out.arrays = <<[fn |-> fn, place |-> <<"array", 0>>]>>
       /\ (adapter.modeltype # "keras_multitask" /\ adapter.model.kind = "list")
            => Len(out.arrays) = adapter.model.heads
       /\ adapter.modeltype = "keras_multitask" =>
            /\ Len(out.arrays) = n
            /\ \A t \in 0..(n - 1) :
                 out.arrays[t + 1] = [fn |-> "predict", place |-> <<"task", t>>]

C10_Witness ==
  /\ adapter.called
  /\ adapter.modeltype = "sklearn"
  /\ adapter.model.kind = "array"
  /\ adapter.out.raised = NoError
  /\ Len(adapter.out.ypreds.arrays) = 1
=============================================================================
